---- MODULE Spec2Model ----
(***************************************************************************)
(* A model of the workshop notebooks: the reasoning-block split of the     *)
(* DeepSeek-R1 notebook, the scoped embeddings clients, the environment    *)
(* and connection-string handling of the setup notebooks, the credential   *)
(* chain and the connection listing the notebooks call into; and of the    *)
(* theme provider of the drug discovery sample's frontend.                 *)
(***************************************************************************)
EXTENDS Integers, Sequences, FiniteSets, TLC

\* -------------------------------------------------------------------------
\* Bounds of the model
\* -------------------------------------------------------------------------
MaxLen == 5
MaxAcquire == 3
MaxPerm == 3
MaxFields == 4
MaxConns == 3

VARIABLES
    content,        \* response.choices[0].message.content, a sequence of tokens
    show_thinking,  \* the show_thinking argument of plan_trip_with_reasoning
    result,         \* what the completion function returned ("none" before the call)
    func,           \* the completion function that was called ("none" before the call)
    remote_calls,   \* the remote calls made by the current invocation
    remote_error,   \* the error the remote call of this invocation raised ("none": none)
    delivered,      \* the exception that left the invoked code for its caller
    cell,           \* the embeddings-notebook code being executed
    scope_pc,       \* its position relative to the with block
    clients,        \* one record per sub-client acquired, in order of acquisition
    exc,            \* the exception in flight ("none" when there is none)
    outcome,        \* how the last run of an embeddings cell ended
    chain,          \* the credential's strategies, in the order they are tried
    succeeds,       \* the strategies that yield a token in this environment
    cursor,         \* resolve()'s position in the chain
    attempts,       \* the strategies invoked by this resolve() call, in order
    failures,       \* the per-strategy failures logged so far
    res,            \* "running", "token" or "failed"
    token,          \* the strategy whose token resolve() returned ("none": no token)
    reported,       \* the strategies named by the aggregate error
    auth_msg,       \* what the token test cell printed
    notebook,       \* the notebook being run from its first cell
    nb_pc,          \* the number of its code cells that have run
    env_set,        \* the environment variables that are set
    conn_env,       \* the fields of PROJECT_CONNECTION_STRING (<<>> when unset)
    defined,        \* the Python names bound so far
    az_tenant,      \* the tenant "az login" was last run with
    az_subscription,\* the subscription "az account set" was last run with
    calls,          \* the external calls made, with the value each was given
    printed,        \* the lines printed
    cell_error,     \* the exception that ended the run ("none": still running)
    fixture,        \* the connections registered in the project
    listed,         \* the result of the last connections.list call
    default_conn,   \* the result of the last connections.get_default call
    mounted,        \* a ThemeProvider is mounted in the page
    theme,          \* its theme state ("none" while none is mounted)
    defaultTheme,   \* its defaultTheme prop
    effect_theme,   \* the theme its effect last ran for ("none": not yet run)
    stored,         \* localStorage's 'theme' item ("absent": no such item)
    root_classes,   \* the light/dark classes of document.documentElement
    colorScheme,    \* document.body.style.colorScheme ("": not set)
    prefers_dark,   \* whether (prefers-color-scheme: dark) matches
    listeners,      \* the change listeners registered on the media query
    last_applied,   \* the theme the effect last ran for, in any page load
    hook            \* what the last useTheme call did

splitVars == <<content, show_thinking, result, func>>
remoteVars == <<remote_calls, remote_error, delivered>>
scopeVars == <<cell, scope_pc, clients, exc, outcome>>
resolveVars == <<chain, succeeds, cursor, attempts, failures, res, token, reported, auth_msg>>

nbVars == <<notebook, nb_pc, env_set, conn_env, defined, az_tenant, az_subscription,
            calls, printed, cell_error>>
connVars == <<fixture, listed, default_conn>>
themeVars == <<mounted, theme, defaultTheme, effect_theme, stored, root_classes, colorScheme,
               prefers_dark, listeners, last_applied, hook>>

vars == <<content, show_thinking, result, func, remote_calls, remote_error, delivered,
          cell, scope_pc, clients, exc, outcome,
          chain, succeeds, cursor, attempts, failures, res, token, reported, auth_msg,
          notebook, nb_pc, env_set, conn_env, defined, az_tenant, az_subscription,
          calls, printed, cell_error, fixture, listed, default_conn,
          mounted, theme, defaultTheme, effect_theme, stored, root_classes, colorScheme,
          prefers_dark, listeners, last_applied, hook>>

\* -------------------------------------------------------------------------
\* Response text.  A text is a sequence of tokens: the two markers of the
\* regular expression, two whitespace characters and one other character.
\* -------------------------------------------------------------------------
Open == "<think>"
Close == "</think>"
Whitespace == {" ", "\n"}
Tokens == {Open, Close, " ", "\n", "a"}

RECURSIVE SeqsUpTo(_, _)
SeqsUpTo(S, n) ==
    IF n = 0 THEN {<<>>}
    ELSE LET shorter == SeqsUpTo(S, n - 1)
         IN  shorter \cup {Append(s, x) : s \in {t \in shorter : Len(t) = n - 1}, x \in S}

Texts == SeqsUpTo(Tokens, MaxLen)

\* str.strip(): drop leading and trailing whitespace
RECURSIVE lstrip(_)
lstrip(s) ==
    IF s # <<>> /\ Head(s) \in Whitespace THEN lstrip(Tail(s)) ELSE s

RECURSIVE rstrip(_)
rstrip(s) ==
    IF s # <<>> /\ s[Len(s)] \in Whitespace THEN rstrip(SubSeq(s, 1, Len(s) - 1)) ELSE s

strip(s) == rstrip(lstrip(s))

\* re.search(r"<think>(.*?)</think>(.*)", content, re.DOTALL):
\* the leftmost position at which the pattern matches, the lazy group ending
\* at the nearest closing marker, the greedy group running to the end of the
\* text (DOTALL: "." also matches "\n").  matched = FALSE models None.
MatchStarts(c) ==
    {i \in 1..Len(c) : c[i] = Open /\ \E j \in (i + 1)..Len(c) : c[j] = Close}

Min(S) == CHOOSE x \in S : \A y \in S : x <= y

re_search_nodotall(c) ==
    \* the same pattern without re.DOTALL: neither group crosses a newline
    LET ok(i, j) == /\ c[i] = Open /\ c[j] = Close /\ i < j
                    /\ \A k \in (i + 1)..(j - 1) : c[k] # "\n" /\ c[k] # Close
        starts == {i \in 1..Len(c) : \E j \in 1..Len(c) : ok(i, j)}
    IN  IF starts = {} THEN [matched |-> FALSE, group1 |-> <<>>, group2 |-> <<>>]
        ELSE LET i == Min(starts)
                 j == Min({k \in 1..Len(c) : ok(i, k)})
                 nl == {k \in (j + 1)..Len(c) : c[k] = "\n"}
                 e == IF nl = {} THEN Len(c) ELSE Min(nl) - 1
             IN  [matched |-> TRUE,
                  group1 |-> SubSeq(c, i + 1, j - 1),
                  group2 |-> SubSeq(c, j + 1, e)]

re_search_greedy(c) ==
    \* the pattern with a greedy first group: it ends at the last closing marker
    IF MatchStarts(c) = {} THEN [matched |-> FALSE, group1 |-> <<>>, group2 |-> <<>>]
    ELSE LET i == Min(MatchStarts(c))
             j == CHOOSE k \in (i + 1)..Len(c) :
                      c[k] = Close /\ \A m \in (k + 1)..Len(c) : c[m] # Close
         IN  [matched |-> TRUE,
              group1 |-> SubSeq(c, i + 1, j - 1),
              group2 |-> SubSeq(c, j + 1, Len(c))]

re_search_openonly(c) ==
    \* a pattern that does not require the closing marker
    LET opens == {i \in 1..Len(c) : c[i] = Open}
    IN  IF opens = {} THEN [matched |-> FALSE, group1 |-> <<>>, group2 |-> <<>>]
        ELSE LET i == Min(opens)
                 closes == {k \in (i + 1)..Len(c) : c[k] = Close}
                 j == IF closes = {} THEN Len(c) + 1 ELSE Min(closes)
             IN  [matched |-> TRUE,
                  group1 |-> SubSeq(c, i + 1, j - 1),
                  group2 |-> SubSeq(c, j + 1, Len(c))]

re_search(c) ==
    IF MatchStarts(c) = {} THEN [matched |-> FALSE, group1 |-> <<>>, group2 |-> <<>>]
    ELSE LET i == Min(MatchStarts(c))
             j == Min({k \in (i + 1)..Len(c) : c[k] = Close})
         IN  [matched |-> TRUE,
              group1 |-> SubSeq(c, i + 1, j - 1),
              group2 |-> SubSeq(c, j + 1, Len(c))]

\* The value plan_trip_with_reasoning returns for a response text: a dict
\* {"thinking", "answer"} when show_thinking and the pattern matches, the
\* text itself otherwise.
NoResult == [kind |-> "none"]
StrResult(c) == [kind |-> "str", text |-> c]
DictResult(t, a) == [kind |-> "dict", thinking |-> t, answer |-> a]

extract_reasoning(c, show) ==
    LET match == re_search(c)
    IN  IF show /\ match.matched
        THEN DictResult(strip(match.group1), strip(match.group2))
        ELSE StrResult(c)

\* What client.complete produced: a response text, or an error raised by the
\* remote call
RemoteErrors == {"HttpResponseError", "ServiceRequestError"}
Returned(c) == [ok |-> TRUE, text |-> c]
Raised(e) == [ok |-> FALSE, error |-> e]
RaisedResult(e) == [kind |-> "raised", error |-> e]

SplitStart ==
    /\ content = <<>>
    /\ show_thinking = FALSE
    /\ result = NoResult
    /\ func = "none"

RemoteStart ==
    /\ remote_calls = 0
    /\ remote_error = "none"
    /\ delivered = "none"

\* the code that wraps its remote call in try/except: the text and the image
\* embeddings cells
Guarded(c) == c \in {"text_cell", "image_cell"}

leaves_wrapped(c, e) ==
    \* an error handler that raises an error of its own in place of the one caught
    IF Guarded(c) \/ e = "none" THEN "none" ELSE "RuntimeError"

\* the exception that leaves code c for its caller when e is raised inside
\* it: none when an except clause of c catches it, e itself otherwise
leaves_with(c, e) == IF Guarded(c) THEN "none" ELSE e

\* plan_trip_with_reasoning(query, show_thinking): one client.complete call,
\* outside any try, whose error (if any) leaves the function as raised, then
\* the split of the response text.  The function keeps no state between
\* calls, so one call from the initial state stands for every call.  The
\* DeepSeek notebook and the embeddings notebook run in kernels of their own.
plan_trip_with_reasoning ==
    /\ result = NoResult
    /\ cell = "none"
    /\ \E show \in BOOLEAN, response \in {Returned(c) : c \in Texts} \cup {Raised(e) : e \in RemoteErrors} :
        /\ UNCHANGED <<scopeVars, resolveVars, nbVars, connVars, themeVars>>
        /\ func' = "plan_trip_with_reasoning"
        /\ show_thinking' = show
        /\ remote_calls' = 1
        /\ IF response.ok
           THEN /\ content' = response.text
                /\ result' = extract_reasoning(response.text, show)
                /\ remote_error' = "none"
                /\ delivered' = "none"
           ELSE /\ content' = <<>>
                /\ remote_error' = response.error
                /\ delivered' = leaves_with("plan_trip_with_reasoning", response.error)
                /\ result' = RaisedResult(delivered')

\* the response texts solve_technical_problem is called with: it returns the
\* text as it is
ShortTexts == {c \in Texts : Len(c) <= 1}

\* solve_technical_problem(problem): one client.complete call outside any
\* try; the content of the response is returned whole
solve_technical_problem ==
    /\ result = NoResult
    /\ cell = "none"
    /\ \E response \in {Returned(c) : c \in ShortTexts} \cup {Raised(e) : e \in RemoteErrors} :
        /\ UNCHANGED <<scopeVars, resolveVars, nbVars, connVars, themeVars>>
        /\ func' = "solve_technical_problem"
        /\ show_thinking' = show_thinking
        /\ remote_calls' = 1
        /\ IF response.ok
           THEN /\ content' = response.text
                /\ result' = StrResult(response.text)
                /\ remote_error' = "none"
                /\ delivered' = "none"
           ELSE /\ content' = <<>>
                /\ remote_error' = response.error
                /\ delivered' = leaves_with("solve_technical_problem", response.error)
                /\ result' = RaisedResult(delivered')

\* -------------------------------------------------------------------------
\* Scoped sub-clients of the embeddings notebook.  Three pieces of code open
\* a sub-client in a with block: the text embeddings cell, the function
\* embed_with_template and the image embeddings cell.
\* -------------------------------------------------------------------------
Cells == {"text_cell", "embed_with_template", "image_cell"}
ClientOf(c) == IF c = "image_cell" THEN "image_embeddings" ELSE "embeddings"
InsideWith == {"load", "embed", "loop", "exit"}

NewClient(kind) == [kind |-> kind, open |-> TRUE, closes |-> 0]

with_exit_skips_on_raise(client, e) ==
    \* a close() call placed after the body instead of a with block
    IF e = "none" THEN [client EXCEPT !.open = FALSE, !.closes = @ + 1] ELSE client

\* __exit__ of the with statement: runs on every way out of the body and
\* closes the sub-client
with_exit(client, e) == [client EXCEPT !.open = FALSE, !.closes = @ + 1]

ScopeStart ==
    /\ cell = "none"
    /\ scope_pc = "idle"
    /\ clients = <<>>
    /\ exc = "none"
    /\ outcome = "none"

\* "with project_client.inference.get_..._client() as c:" : the sub-client is
\* acquired, or the call raises and there is nothing to release.  In a run of
\* the embeddings notebook the cells follow the client cell, and
\* project_client is a bound name only if that cell created the client.
Acquire(c) ==
    /\ scope_pc = "idle"
    /\ func = "none"
    /\ notebook = "none" \/ (notebook = "embeddings" /\ nb_pc = 1 /\ cell_error = "none")
    /\ Len(clients) < MaxAcquire
    /\ cell' = c
    /\ outcome' = "none"
    /\ remote_calls' = 0
    /\ remote_error' = "none"
    /\ delivered' = "none"
    /\ \/ /\ notebook = "none" \/ "project_client" \in defined
          /\ clients' = Append(clients, NewClient(ClientOf(c)))
          /\ scope_pc' = IF c = "image_cell" THEN "load" ELSE "embed"
          /\ exc' = "none"
       \/ /\ clients' = clients
          /\ scope_pc' = "left"
          /\ exc' = IF notebook = "none" \/ "project_client" \in defined
                    THEN "acquire_error" ELSE "NameError"
    /\ UNCHANGED <<splitVars, resolveVars, nbVars, connVars, themeVars>>

\* ImageEmbeddingInput.load(image_file=...) inside the image cell's block
LoadImage ==
    /\ scope_pc = "load"
    /\ \/ scope_pc' = "embed" /\ exc' = "none"
       \/ scope_pc' = "exit" /\ exc' = "load_error"
    /\ UNCHANGED <<cell, clients, outcome>>
    /\ UNCHANGED <<splitVars, resolveVars, nbVars, connVars, remoteVars, themeVars>>

\* the enclosed embed call, made once, returns or raises
Embed ==
    /\ scope_pc = "embed"
    /\ remote_calls' = remote_calls + 1
    /\ \/ /\ scope_pc' = IF cell = "embed_with_template" THEN "exit" ELSE "loop"
          /\ exc' = "none"
       \/ scope_pc' = "exit" /\ exc' \in RemoteErrors
    /\ remote_error' = exc'
    /\ UNCHANGED <<cell, clients, outcome, delivered>>
    /\ UNCHANGED <<splitVars, resolveVars, nbVars, connVars, themeVars>>

\* the for loop over response.data inside the block: formats and prints
\* each vector, or raises on a vector too short to index
PrintLoop ==
    /\ scope_pc = "loop"
    /\ scope_pc' = "exit"
    /\ exc' \in {"none", "index_error"}
    /\ UNCHANGED <<cell, clients, outcome>>
    /\ UNCHANGED <<splitVars, resolveVars, nbVars, connVars, remoteVars, themeVars>>

\* control leaves the with block: __exit__ runs
ExitWith ==
    /\ scope_pc = "exit"
    /\ clients' = [clients EXCEPT ![Len(clients)] = with_exit(@, exc)]
    /\ scope_pc' = "left"
    /\ UNCHANGED <<cell, exc, outcome>>
    /\ UNCHANGED <<splitVars, resolveVars, nbVars, connVars, remoteVars, themeVars>>

\* after the block: the except clause prints the error (the two cells), the
\* exception leaves embed_with_template (no try there) and, uncaught by the
\* cell that called it, ends the run of the notebook, or the code ends
Leave ==
    /\ scope_pc = "left"
    /\ outcome' = IF exc = "none" THEN "done"
                  ELSE IF Guarded(cell) THEN "printed_error" ELSE "raised"
    /\ delivered' = leaves_with(cell, exc)
    /\ cell_error' = IF notebook = "embeddings" THEN delivered' ELSE cell_error
    /\ exc' = "none"
    /\ scope_pc' = "idle"
    /\ UNCHANGED <<cell, clients, remote_calls, remote_error>>
    /\ UNCHANGED <<notebook, nb_pc, env_set, conn_env, defined, az_tenant, az_subscription,
                   calls, printed>>
    /\ UNCHANGED <<splitVars, resolveVars, connVars, themeVars>>

\* -------------------------------------------------------------------------
\* Credential resolution.  The notebooks construct DefaultAzureCredential and
\* AzureCliCredential and ask for a token; the chain itself runs inside the
\* azure-identity package, and is modelled from the description of the
\* credential resolver.
\* -------------------------------------------------------------------------
\* "DefaultAzureCredential attempts authentication methods in the following
\* order"
DefaultChain ==
    <<"Environment", "WorkloadIdentity", "ManagedIdentity", "AzureCli",
      "AzurePowerShell", "VSCode", "InteractiveBrowser">>

\* the order the authentication notebook gives for its token test
CliNotebookChain ==
    <<"Environment", "ManagedIdentity", "SharedTokenCache", "VSCode", "AzureCli">>

Range(f) == {f[k] : k \in DOMAIN f}

OrderingsOf(q) ==
    {p \in [1..Len(q) -> Range(q)] : \A i, j \in 1..Len(q) : p[i] = p[j] => i = j}

\* the orderings a chain is built with: the two documented ones and every
\* ordering of the first MaxPerm strategies
Orderings ==
    {DefaultChain, CliNotebookChain} \cup OrderingsOf(SubSeq(DefaultChain, 1, MaxPerm))

finished_when_exhausted(ok, k, n) == k = n

\* resolve() is over after strategy k of n: it succeeded, or it was the last
finished(ok, k, n) == ok \/ k = n

next_cursor_retry(k) == k

session_selected_by_attempt(sub, s) ==
    \* a CLI strategy that selects the subscription of the token it asks for
    IF s = "AzureCli" THEN "token-subscription" ELSE sub

\* "Side effect: none beyond logging": the subscription the CLI session has
\* selected after strategy s was attempted is the one selected before
session_after_attempt(sub, s) == sub

\* in a run of the authentication notebook the token test follows the
\* login cell
ResolverTurn == notebook = "none" \/ (notebook = "authentication" /\ nb_pc = 1 /\ cell_error = "none")

\* a failed strategy is not retried: the resolver advances to the next one
next_cursor(k) == k + 1

aggregate_last(f) == <<f[Len(f)]>>

\* the aggregate error enumerates all per-strategy failures
aggregate(f) == f

ResolveStart ==
    /\ chain \in Orderings
    /\ succeeds \in SUBSET Range(chain)
    /\ cursor = 1
    /\ attempts = <<>>
    /\ failures = <<>>
    /\ res = "running"
    /\ token = "none"
    /\ reported = <<>>
    /\ auth_msg = "none"

ResolveIdle ==
    /\ chain = DefaultChain
    /\ succeeds = {}
    /\ cursor = 1
    /\ attempts = <<>>
    /\ failures = <<>>
    /\ res = "running"
    /\ token = "none"
    /\ reported = <<>>
    /\ auth_msg = "none"

\* one step of resolve(): the strategy under the cursor is invoked; it
\* returns a token or fails, and a failure is logged, not raised
Attempt ==
    /\ res = "running"
    /\ ResolverTurn
    /\ cursor <= Len(chain)
    /\ LET s == chain[cursor]
           ok == s \in succeeds
           fs == IF ok THEN failures ELSE Append(failures, s)
           tk == IF ok THEN s ELSE token
       IN  /\ attempts' = Append(attempts, s)
           /\ failures' = fs
           /\ token' = tk
           /\ IF finished(ok, cursor, Len(chain))
              THEN /\ res' = IF tk # "none" THEN "token" ELSE "failed"
                   /\ reported' = IF tk # "none" THEN <<>> ELSE aggregate(fs)
                   /\ cursor' = cursor
              ELSE /\ res' = "running"
                   /\ reported' = reported
                   /\ cursor' = next_cursor(cursor)
    /\ az_subscription' = session_after_attempt(az_subscription, chain[cursor])
    /\ UNCHANGED <<chain, succeeds, auth_msg>>
    /\ UNCHANGED <<notebook, nb_pc, env_set, conn_env, defined, az_tenant, calls, printed,
                   cell_error>>
    /\ UNCHANGED <<splitVars, scopeVars, connVars, remoteVars, themeVars>>

\* the token test cell around get_token: the success line, or the except
\* clause printing the failure
TokenTestCell ==
    /\ res \in {"token", "failed"}
    /\ ResolverTurn
    /\ auth_msg = "none"
    /\ auth_msg' = IF res = "token" THEN "Successfully acquired token!"
                   ELSE "Authentication failed"
    /\ UNCHANGED <<chain, succeeds, cursor, attempts, failures, res, token, reported>>
    /\ UNCHANGED <<splitVars, scopeVars, nbVars, connVars, remoteVars, themeVars>>

\* -------------------------------------------------------------------------
\* Connections of the project.  client.connections.list and get_default run
\* inside the azure-ai-projects package, and are modelled from the contract
\* of the project client; the listing cell that calls them is the notebook's.
\* -------------------------------------------------------------------------
ConnectionTypes == {"AZURE_OPEN_AI", "AZURE_AI_SERVICES", "AZURE_AI_SEARCH"}

\* a fixture: the registered connections in their order, the id of each its
\* position
FixtureOf(ts) == [k \in 1..Len(ts) |-> [id |-> k, type |-> ts[k]]]
Fixtures == {FixtureOf(ts) : ts \in SeqsUpTo(ConnectionTypes, MaxConns)}

RECURSIVE OfType(_, _)
OfType(fx, t) ==
    IF fx = <<>> THEN <<>>
    ELSE IF Head(fx).type = t THEN <<Head(fx)>> \o OfType(Tail(fx), t)
    ELSE OfType(Tail(fx), t)

list_connections_unfiltered(fx, f) == fx

\* connections.list(connection_type=f); f = "all" is the call without a filter
list_connections(fx, f) == IF f = "all" THEN fx ELSE OfType(fx, f)

default_candidates_any(fx, t) == Range(fx)

\* the connections get_default(connection_type=t) may return
default_candidates(fx, t) == {c \in Range(fx) : c.type = t}

NotCalled == [called |-> FALSE]
Listed(f, items) == [called |-> TRUE, filter |-> f, items |-> items]
DefaultFound(t, c) == [called |-> TRUE, type |-> t, found |-> TRUE, conn |-> c]
DefaultNotFound(t) == [called |-> TRUE, type |-> t, found |-> FALSE, error |-> "NotFound"]

\* the results get_default(t) can have on a fixture
get_default(fx, t) ==
    IF default_candidates(fx, t) = {} THEN {DefaultNotFound(t)}
    ELSE {DefaultFound(t, c) : c \in default_candidates(fx, t)}

ConnStart ==
    /\ fixture \in Fixtures
    /\ listed = NotCalled
    /\ default_conn = NotCalled

ConnIdle ==
    /\ fixture = <<>>
    /\ listed = NotCalled
    /\ default_conn = NotCalled

\* client.connections.list(connection_type=f) on the fixture
ListConnections(f) ==
    /\ listed = NotCalled
    /\ listed' = Listed(f, list_connections(fixture, f))
    /\ UNCHANGED <<fixture, default_conn>>
    /\ UNCHANGED <<splitVars, scopeVars, resolveVars, nbVars, remoteVars, themeVars>>

\* client.connections.get_default(connection_type=t) on the fixture
GetDefault(t) ==
    /\ default_conn = NotCalled
    /\ default_conn' \in get_default(fixture, t)
    /\ UNCHANGED <<fixture, listed>>
    /\ UNCHANGED <<splitVars, scopeVars, resolveVars, nbVars, remoteVars, themeVars>>

\* -------------------------------------------------------------------------
\* The notebooks' setup cells: environment variables, the connection string,
\* client construction.  A notebook runs its code cells in order; a cell
\* that raises ends the run.
\* -------------------------------------------------------------------------
Notebooks == {"authentication", "environment_setup", "embeddings", "deepseek"}

\* the variables each notebook reads
EnvOf(nb) ==
    CASE nb = "authentication" -> {"TENANT_ID", "PROJECT_CONNECTION_STRING"}
      [] nb = "environment_setup" -> {"PROJECT_CONNECTION_STRING"}
      [] nb = "embeddings" ->
            {"PROJECT_CONNECTION_STRING", "TEXT_EMBEDDING_MODEL", "IMAGE_EMBEDDING_MODEL"}
      [] OTHER -> {"AZURE_INFERENCE_ENDPOINT", "AZURE_INFERENCE_KEY", "MODEL_NAME"}

\* A connection string is the sequence of its semicolon-delimited fields
\* (what split(';') gives); <<"">> is the empty string.
FieldValues == {"", "id"}
ConnStrings == SeqsUpTo(FieldValues, MaxFields) \ {<<>>}
Placeholder == <<"<your-connection-string>">>

\* the number of fields a project connection string holds
RequiredFields == 4

\* truth value of "conn_str" in "... if conn_str else None"
Truthy(set, conn) == set /\ conn # <<"">>

extract_subscription_first(set, conn) ==
    \* the same expression with index 0
    IF ~Truthy(set, conn) THEN "None" ELSE conn[1]

\* subscription_id = conn_str.split(';')[1] if conn_str else None
extract_subscription(set, conn) ==
    IF ~Truthy(set, conn) THEN "None"
    ELSE IF Len(conn) < 2 THEN "IndexError"
    ELSE conn[2]

\* AIProjectClient.from_connection_string rejects a connection string with
\* fewer than the required fields (an unset one included)
from_connection_string_raises(set, conn) == ~set \/ Len(conn) < RequiredFields

Call(op, missing) == [op |-> op, missing |-> missing]

NbStart ==
    /\ notebook \in Notebooks
    /\ env_set \in SUBSET EnvOf(notebook)
    /\ conn_env \in (IF "PROJECT_CONNECTION_STRING" \in env_set THEN ConnStrings ELSE {<<>>})
    /\ nb_pc = 0
    /\ defined = {}
    /\ az_tenant = "unset"
    /\ az_subscription = "unset"
    /\ calls = <<>>
    /\ printed = <<>>
    /\ cell_error = "none"
    /\ fixture \in (IF notebook = "environment_setup" THEN Fixtures ELSE {<<>>})
    /\ listed = NotCalled
    /\ default_conn = NotCalled

NbIdle ==
    /\ notebook = "none"
    /\ env_set = {}
    /\ conn_env = <<>>
    /\ nb_pc = 0
    /\ defined = {}
    /\ az_tenant = "unset"
    /\ az_subscription = "unset"
    /\ calls = <<>>
    /\ printed = <<>>
    /\ cell_error = "none"

Running(nb, n) == notebook = nb /\ nb_pc = n /\ cell_error = "none"

on_except_pass(out, msg) == out     \* an except clause that prints nothing

\* except Exception as e: print(msg, e)
on_except(out, msg) == Append(out, msg)

ConnSet == "PROJECT_CONNECTION_STRING" \in env_set

\* authentication notebook, first code cell: tenant id, az login, the
\* subscription id taken from the connection string, az account set
AuthLoginCell ==
    /\ Running("authentication", 0)
    /\ nb_pc' = 1
    /\ LET tenant_missing == "TENANT_ID" \notin env_set
           login == Call("az login", tenant_missing)
           sub == extract_subscription(ConnSet, conn_env)
       IN  /\ az_tenant' = IF tenant_missing THEN "None" ELSE "tenant"
           /\ IF sub = "IndexError"
              THEN /\ cell_error' = "IndexError"
                   /\ defined' = defined \cup {"tenant_id", "conn_str"}
                   /\ calls' = Append(calls, login)
                   /\ UNCHANGED <<az_subscription, printed>>
              ELSE /\ cell_error' = "none"
                   /\ defined' = defined \cup {"tenant_id", "conn_str", "subscription_id"}
                   /\ IF sub \notin {"None", ""}
                      THEN /\ az_subscription' = sub
                           /\ calls' = calls \o <<login, Call("az account set", FALSE)>>
                           /\ printed' = Append(printed, "Successfully set subscription")
                      ELSE /\ az_subscription' = az_subscription
                           /\ calls' = Append(calls, login)
                           /\ printed' = Append(printed, "Could not get subscription ID")
    /\ UNCHANGED <<notebook, env_set, conn_env>>
    /\ UNCHANGED <<splitVars, scopeVars, resolveVars, connVars, remoteVars, themeVars>>

\* environment setup notebook: try: credential = DefaultAzureCredential()
SetupCredentialCell ==
    /\ Running("environment_setup", 0)
    /\ nb_pc' = 1
    /\ \/ /\ defined' = defined \cup {"credential"}
          /\ printed' = Append(printed, "Successfully initialized DefaultAzureCredential")
       \/ /\ defined' = defined
          /\ printed' = on_except(printed, "Error initializing credentials")
    /\ UNCHANGED <<notebook, env_set, conn_env, az_tenant, az_subscription, calls, cell_error>>
    /\ UNCHANGED <<splitVars, scopeVars, resolveVars, connVars, remoteVars, themeVars>>

\* environment setup notebook: try: client = AIProjectClient
\* .from_connection_string(...); the except clause prints the error
SetupClientCell ==
    /\ Running("environment_setup", 1)
    /\ nb_pc' = 2
    /\ IF "credential" \notin defined
       THEN /\ printed' = on_except(printed, "Error initializing client")
            /\ UNCHANGED <<defined, calls>>
       ELSE /\ calls' = Append(calls, Call("from_connection_string", ~ConnSet))
            /\ IF from_connection_string_raises(ConnSet, conn_env)
               THEN /\ printed' = on_except(printed, "Error initializing client")
                    /\ defined' = defined
               ELSE /\ printed' = Append(printed, "Successfully initialized AIProjectClient")
                    /\ defined' = defined \cup {"client"}
    /\ UNCHANGED <<notebook, env_set, conn_env, az_tenant, az_subscription, cell_error>>
    /\ UNCHANGED <<splitVars, scopeVars, resolveVars, connVars, remoteVars, themeVars>>

\* environment setup notebook: the listing cell (list, list by type,
\* get_default), none of it inside a try
SetupListingCell ==
    /\ Running("environment_setup", 2)
    /\ nb_pc' = 3
    /\ IF "client" \notin defined
       THEN /\ cell_error' = "NameError"
            /\ UNCHANGED <<listed, default_conn, printed>>
       ELSE /\ listed' = Listed("AZURE_OPEN_AI", list_connections(fixture, "AZURE_OPEN_AI"))
            /\ default_conn' \in get_default(fixture, "AZURE_AI_SERVICES")
            /\ cell_error' = IF default_conn'.found THEN "none" ELSE "NotFound"
            /\ printed' = printed \o
                  <<"Listing of all connections", "Listing of all Azure Open AI connections">>
                  \o (IF default_conn'.found
                      THEN <<"Get default Azure AI Services connection">> ELSE <<>>)
    /\ UNCHANGED <<notebook, env_set, conn_env, defined, az_tenant, az_subscription, calls>>
    /\ UNCHANGED <<fixture>>
    /\ UNCHANGED <<splitVars, scopeVars, resolveVars, remoteVars, themeVars>>

\* embeddings notebook: environment.get with fallbacks, then try:
\* project_client = AIProjectClient.from_connection_string(...)
EmbeddingsClientCell ==
    /\ Running("embeddings", 0)
    /\ nb_pc' = 1
    /\ LET conn == IF ConnSet THEN conn_env ELSE Placeholder
       IN  \/ /\ calls' = Append(calls, Call("from_connection_string", ~ConnSet))
              /\ IF from_connection_string_raises(TRUE, conn)
                 THEN /\ printed' = on_except(printed, "Error creating AIProjectClient")
                      /\ defined' = defined
                 ELSE /\ printed' = Append(printed, "Successfully created AIProjectClient")
                      /\ defined' = defined \cup {"project_client"}
           \/ /\ calls' = calls      \* DefaultAzureCredential() raised
              /\ printed' = on_except(printed, "Error creating AIProjectClient")
              /\ defined' = defined
    /\ UNCHANGED <<notebook, env_set, conn_env, az_tenant, az_subscription, cell_error>>
    /\ UNCHANGED <<splitVars, scopeVars, resolveVars, connVars, remoteVars, themeVars>>

\* DeepSeek notebook: endpoint, key and model name from the environment,
\* then try: client = ChatCompletionsClient(...)
DeepseekClientCell ==
    /\ Running("deepseek", 0)
    /\ nb_pc' = 1
    /\ calls' = Append(calls, Call("ChatCompletionsClient",
                        ~({"AZURE_INFERENCE_ENDPOINT", "AZURE_INFERENCE_KEY"} \subseteq env_set)))
    /\ \/ /\ printed' = Append(printed, "Client initialized")
          /\ defined' = defined \cup {"client"}
       \/ /\ printed' = on_except(printed, "Initialization failed")
          /\ defined' = defined
    /\ UNCHANGED <<notebook, env_set, conn_env, az_tenant, az_subscription, cell_error>>
    /\ UNCHANGED <<splitVars, scopeVars, resolveVars, connVars, remoteVars, themeVars>>

\* DeepSeek notebook: the example call of plan_trip_with_reasoning, which
\* passes model_name to client.complete
DeepseekPlanTripCell ==
    /\ Running("deepseek", 1)
    /\ nb_pc' = 2
    /\ IF "client" \notin defined
       THEN /\ cell_error' = "NameError"
            /\ UNCHANGED <<calls, printed>>
       ELSE /\ calls' = Append(calls, Call("client.complete", "MODEL_NAME" \notin env_set))
            /\ \/ /\ cell_error' = "none"
                  /\ printed' = Append(printed, "Response")
               \/ /\ cell_error' \in RemoteErrors
                  /\ printed' = printed
    /\ UNCHANGED <<notebook, env_set, conn_env, defined, az_tenant, az_subscription>>
    /\ UNCHANGED <<splitVars, scopeVars, resolveVars, connVars, remoteVars, themeVars>>

\* -------------------------------------------------------------------------
\* The theme provider of the frontend.  React runs the effect of a render
\* after the render is committed, and runs the effects still pending before
\* the next render; the page can be reloaded at any moment.
\* -------------------------------------------------------------------------
Themes == {"dark", "light", "system"}

\* the value createContext is given: what useContext returns with no
\* provider above the caller
DefaultContext == [defined |-> TRUE, theme |-> "system", setTheme |-> "noop"]

\* value={{ theme, setTheme }} of ThemeContext.Provider
ProviderContext(t) == [defined |-> TRUE, theme |-> t, setTheme |-> "setTheme"]

\* useContext(ThemeContext)
use_context(inside, t) == IF inside THEN ProviderContext(t) ELSE DefaultContext

NotUsed == [called |-> FALSE]
Thrown(inside) ==
    [called |-> TRUE, inside |-> inside, thrown |-> TRUE,
     message |-> "useTheme must be used within a ThemeProvider"]
ReturnedContext(inside, ctx) ==
    [called |-> TRUE, inside |-> inside, thrown |-> FALSE, value |-> ctx]

\* useTheme: throws when the context is undefined, returns it otherwise
use_theme(inside, ctx) ==
    IF ~ctx.defined THEN Thrown(inside) ELSE ReturnedContext(inside, ctx)

initial_theme_default(saved, default) == default    \* an initializer that reads no storage

\* useState initializer: savedTheme || defaultTheme
initial_theme(saved, default) == IF saved # "absent" THEN saved ELSE default

\* window.matchMedia("(prefers-color-scheme: dark)").matches ? "dark" : "light"
SystemTheme(dark) == IF dark THEN "dark" ELSE "light"

add_class(classes, c) == classes \cup {c}     \* classList.add without the remove before it

\* root.classList.remove("light", "dark"); root.classList.add(c)
replace_class(classes, c) == (classes \ {"light", "dark"}) \cup {c}

cleanup_none(n, t) == n     \* an effect that returns no cleanup

\* the cleanup of the effect that ran for theme t: removeEventListener when
\* t is "system", nothing otherwise
cleanup(n, t) == IF t = "system" THEN n - 1 ELSE n

ThemeStart ==
    /\ mounted = FALSE
    /\ theme = "none"
    /\ defaultTheme = "system"
    /\ effect_theme = "none"
    /\ stored \in {"absent"} \cup Themes
    /\ root_classes = {}
    /\ colorScheme = ""
    /\ prefers_dark \in BOOLEAN
    /\ listeners = 0
    /\ last_applied = "none"
    /\ hook = NotUsed

ThemeIdle ==
    /\ mounted = FALSE
    /\ theme = "none"
    /\ defaultTheme = "system"
    /\ effect_theme = "none"
    /\ stored = "absent"
    /\ root_classes = {}
    /\ colorScheme = ""
    /\ prefers_dark = FALSE
    /\ listeners = 0
    /\ last_applied = "none"
    /\ hook = NotUsed

OtherVars == <<splitVars, remoteVars, scopeVars, resolveVars, nbVars, connVars>>

EffectPending == mounted /\ effect_theme # theme

\* <ThemeProvider defaultTheme={d}> is mounted: the state starts from the
\* stored item, or from the prop
Mount(d) ==
    /\ ~mounted
    /\ mounted' = TRUE
    /\ defaultTheme' = d
    /\ theme' = initial_theme(stored, d)
    /\ effect_theme' = "none"
    /\ UNCHANGED <<stored, root_classes, colorScheme, prefers_dark, listeners, last_applied, hook>>
    /\ UNCHANGED OtherVars

\* setTheme(t) from a component below the provider; the pending effect of
\* the last render runs before the render this call causes
SetTheme(t) ==
    /\ mounted
    /\ ~EffectPending
    /\ theme' = t
    /\ UNCHANGED <<mounted, defaultTheme, effect_theme, stored, root_classes, colorScheme,
                   prefers_dark, listeners, last_applied, hook>>
    /\ UNCHANGED OtherVars

\* the effect on [theme]: the cleanup of the effect before it, then the
\* class on the root, the color scheme of the body, the stored item and,
\* for "system", the change listener
RunEffect ==
    /\ EffectPending
    /\ LET c == IF theme = "system" THEN SystemTheme(prefers_dark) ELSE theme
           n == cleanup(listeners, effect_theme)
       IN  /\ root_classes' = replace_class(root_classes, c)
           /\ colorScheme' = c
           /\ listeners' = IF theme = "system" THEN n + 1 ELSE n
    /\ stored' = theme
    /\ effect_theme' = theme
    /\ last_applied' = theme
    /\ UNCHANGED <<mounted, theme, defaultTheme, prefers_dark, hook>>
    /\ UNCHANGED OtherVars

\* the system preference changes; handleChange runs if it is registered
PreferenceChange ==
    /\ prefers_dark' = ~prefers_dark
    /\ root_classes' = IF listeners > 0
                       THEN replace_class(root_classes, SystemTheme(prefers_dark'))
                       ELSE root_classes
    /\ UNCHANGED <<mounted, theme, defaultTheme, effect_theme, stored, colorScheme, listeners,
                   last_applied, hook>>
    /\ UNCHANGED OtherVars

\* the provider is unmounted: the cleanup of its effect runs
Unmount ==
    /\ mounted
    /\ ~EffectPending
    /\ mounted' = FALSE
    /\ listeners' = cleanup(listeners, effect_theme)
    /\ theme' = "none"
    /\ effect_theme' = "none"
    /\ UNCHANGED <<defaultTheme, stored, root_classes, colorScheme, prefers_dark, last_applied,
                   hook>>
    /\ UNCHANGED OtherVars

\* the page is reloaded: the document and its listeners are gone, the
\* stored item stays
Reload ==
    /\ mounted
    /\ mounted' = FALSE
    /\ theme' = "none"
    /\ effect_theme' = "none"
    /\ listeners' = 0
    /\ root_classes' = {}
    /\ colorScheme' = ""
    /\ hook' = NotUsed
    /\ UNCHANGED <<defaultTheme, stored, prefers_dark, last_applied>>
    /\ UNCHANGED OtherVars

\* a component calls useTheme(), below a mounted provider or with none
\* above it
UseTheme(inside) ==
    /\ inside => mounted
    /\ hook' = use_theme(inside, use_context(inside, theme))
    /\ UNCHANGED <<mounted, theme, defaultTheme, effect_theme, stored, root_classes, colorScheme,
                   prefers_dark, listeners, last_applied>>
    /\ UNCHANGED OtherVars

\* -------------------------------------------------------------------------
\* Specifications
\* -------------------------------------------------------------------------
SplitNext == plan_trip_with_reasoning \/ solve_technical_problem

InitSplit == SplitStart /\ RemoteStart /\ ThemeIdle /\ ScopeStart /\ ResolveIdle /\ NbIdle /\ ConnIdle

SpecSplit == InitSplit /\ [][SplitNext]_vars

ScopeNext ==
    \/ \E c \in Cells : Acquire(c)
    \/ LoadImage
    \/ Embed
    \/ PrintLoop
    \/ ExitWith
    \/ Leave

InitScope == SplitStart /\ RemoteStart /\ ThemeIdle /\ ScopeStart /\ ResolveIdle /\ NbIdle /\ ConnIdle

SpecScope == InitScope /\ [][ScopeNext]_vars

ResolveNext == Attempt \/ TokenTestCell

InitResolve == SplitStart /\ RemoteStart /\ ThemeIdle /\ ScopeStart /\ ResolveStart /\ NbIdle /\ ConnIdle

SpecResolve == InitResolve /\ [][ResolveNext]_vars

ConnNext ==
    \/ \E f \in ConnectionTypes \cup {"all"} : ListConnections(f)
    \/ \E t \in ConnectionTypes : GetDefault(t)

NbNext ==
    \/ AuthLoginCell
    \/ SetupCredentialCell
    \/ SetupClientCell
    \/ SetupListingCell
    \/ EmbeddingsClientCell
    \/ DeepseekClientCell
    \/ DeepseekPlanTripCell

InitNotebooks == SplitStart /\ RemoteStart /\ ThemeIdle /\ ScopeStart /\ ResolveIdle /\ NbStart

SpecNotebooks == InitNotebooks /\ [][NbNext]_vars

InitConn == SplitStart /\ RemoteStart /\ ThemeIdle /\ ScopeStart /\ ResolveIdle /\ NbIdle /\ ConnStart

SpecConn == InitConn /\ [][ConnNext]_vars

ThemeNext ==
    \/ \E d \in Themes : Mount(d)
    \/ \E t \in Themes : SetTheme(t)
    \/ RunEffect
    \/ PreferenceChange
    \/ Unmount
    \/ Reload
    \/ \E inside \in BOOLEAN : UseTheme(inside)

InitTheme ==
    /\ SplitStart /\ RemoteStart /\ ScopeStart /\ ResolveIdle /\ NbIdle /\ ConnIdle
    /\ ThemeStart

SpecTheme == InitTheme /\ [][ThemeNext]_vars

\* a notebook run from its first cell, the token test and the embeddings
\* cells included
WorkshopNext == NbNext \/ ResolveNext \/ ScopeNext

InitWorkshop ==
    /\ SplitStart /\ RemoteStart /\ ThemeIdle /\ ScopeStart /\ NbStart
    /\ IF notebook = "authentication" THEN ResolveStart /\ chain = CliNotebookChain
       ELSE ResolveIdle

SpecWorkshop == InitWorkshop /\ [][WorkshopNext]_vars

\* the remote calls of the two inference notebooks, each in its own kernel
RemoteNext == SplitNext \/ ScopeNext

InitRemote == SplitStart /\ RemoteStart /\ ThemeIdle /\ ScopeStart /\ ResolveIdle /\ NbIdle /\ ConnIdle

SpecRemote == InitRemote /\ [][RemoteNext]_vars

\* -------------------------------------------------------------------------
\* Properties of the reasoning-block split
\* -------------------------------------------------------------------------
AllWhitespace(s) == \A k \in 1..Len(s) : s[k] \in Whitespace

\* t is s without its leading and trailing whitespace
IsTrimOf(t, s) ==
    /\ t = <<>> \/ (t[1] \notin Whitespace /\ t[Len(t)] \notin Whitespace)
    /\ \E a \in 0..Len(s) :
          /\ a + Len(t) <= Len(s)
          /\ AllWhitespace(SubSeq(s, 1, a))
          /\ SubSeq(s, a + 1, a + Len(t)) = t
          /\ AllWhitespace(SubSeq(s, a + Len(t) + 1, Len(s)))

HasToken(c, tok) == \E k \in 1..Len(c) : c[k] = tok

\* The text is <think>X</think>Y with the closing marker at position j
SplitAs(j) ==
    /\ result.kind = "dict"
    /\ IsTrimOf(result.thinking, SubSeq(content, 2, j - 1))
    /\ IsTrimOf(result.answer, SubSeq(content, j + 1, Len(content)))

NoMarkerWhole ==
    (result.kind \in {"str", "dict"} /\ ~HasToken(content, Open))
        => result = StrResult(content)

\* C6 as stated: for every way of reading the response text as
\* <think>X</think>Y, the split with show_thinking yields thinking = X trimmed
\* and answer = Y trimmed; a text without the marker is returned whole, with
\* no thinking segment.
C6_AsStated ==
    /\ (show_thinking /\ result.kind \in {"str", "dict"} /\ content # <<>> /\ content[1] = Open)
          => \A j \in 2..Len(content) : content[j] = Close => SplitAs(j)
    /\ NoMarkerWhole

\* C6 amended: the same, for X that holds no closing marker (the first
\* group of the pattern is lazy: it ends at the first </think>).
C6_SplitForm ==
    /\ (show_thinking /\ result.kind \in {"str", "dict"} /\ content # <<>> /\ content[1] = Open)
          => \A j \in 2..Len(content) :
                (content[j] = Close /\ ~HasToken(SubSeq(content, 2, j - 1), Close))
                    => SplitAs(j)
    /\ NoMarkerWhole

\* a split happened, and trimming removed whitespace on both parts
C6_Witness ==
    /\ show_thinking
    /\ Len(content) = 5
    /\ content[1] = Open /\ content[2] = "\n" /\ content[3] = "a"
    /\ content[4] = Close /\ content[5] = " "
    /\ result = DictResult(<<"a">>, <<>>)

\* C7: when <think> appears but no </think> follows it, the call returns the
\* whole text unchanged: no thinking segment is extracted, nothing is raised.
OpenWithoutClose(c) ==
    /\ HasToken(c, Open)
    /\ \A i \in 1..Len(c), j \in 1..Len(c) : (i < j /\ c[i] = Open) => c[j] # Close

C7_UnclosedWhole ==
    (result.kind # "none" /\ OpenWithoutClose(content)) => result = StrResult(content)

C7_Witness ==
    /\ show_thinking
    /\ content = <<Close, Open, " ", "a">>
    /\ result = StrResult(content)

\* -------------------------------------------------------------------------
\* Properties of the scoped sub-clients
\* -------------------------------------------------------------------------
\* C4: every acquired sub-client is closed exactly once by the time control
\* has left its with block, whether the enclosed calls returned or raised;
\* it is never closed twice, and it is open while the block runs.
C4_ReleasedOnce ==
    \A k \in 1..Len(clients) :
        /\ clients[k].closes <= 1
        /\ clients[k].open <=> (clients[k].closes = 0)
        /\ (k < Len(clients) \/ scope_pc \notin InsideWith)
              => (clients[k].closes = 1 /\ ~clients[k].open)
        /\ (k = Len(clients) /\ scope_pc \in InsideWith) => clients[k].open

\* a sub-client whose enclosed embed call raised has been released, and the
\* exception is still on its way out
C4_Witness ==
    /\ scope_pc = "left"
    /\ exc \in RemoteErrors
    /\ Len(clients) = 2
    /\ clients[2].closes = 1

\* -------------------------------------------------------------------------
\* Properties of credential resolution
\* -------------------------------------------------------------------------
IsPrefix(p, q) == Len(p) <= Len(q) /\ p = SubSeq(q, 1, Len(p))

\* C1: for every ordering and every assignment of succeed/fail, resolve()
\* returns the token of the earliest strategy in the order that succeeds,
\* and no strategy placed after that one is invoked.
C1_FirstSuccess ==
    /\ res = "token" =>
          \E k \in 1..Len(chain) :
              /\ token = chain[k]
              /\ chain[k] \in succeeds
              /\ \A m \in 1..(k - 1) : chain[m] \notin succeeds
              /\ attempts = SubSeq(chain, 1, k)
    /\ res = "failed" => succeeds = {}

\* the third strategy of the default chain produced the token while a later
\* one would have succeeded too
C1_Witness ==
    /\ chain = DefaultChain
    /\ res = "token"
    /\ token = "ManagedIdentity"
    /\ "AzureCli" \in succeeds
    /\ Len(attempts) = 3

\* the six strategies the resolver's contract names, in its priority order
NamedOrder ==
    <<"Environment", "WorkloadIdentity", "ManagedIdentity", "AzureCli",
      "VSCode", "InteractiveBrowser">>

Position(q, x) == CHOOSE k \in 1..Len(q) : q[k] = x

C3_AggregateFailure ==
    /\ (res # "running" /\ succeeds = {}) =>
          /\ res = "failed"
          /\ token = "none"
          /\ reported = chain
          /\ reported = attempts
    /\ res = "failed" => Len(attempts) = Len(chain)
    /\ auth_msg = "Authentication failed" => res = "failed"

\* the whole default chain failed and the cell printed the failure
C3_Witness ==
    /\ chain = DefaultChain
    /\ res = "failed"
    /\ reported = DefaultChain
    /\ auth_msg = "Authentication failed"

\* -------------------------------------------------------------------------
\* Properties of the connection operations
\* -------------------------------------------------------------------------
Matches(c, f) == f = "all" \/ c.type = f

\* C8: list_connections(type_filter) over the N registered connections
\* returns exactly those whose type matches the filter, in their original
\* relative order; nothing matching gives the empty sequence, not an error;
\* without a filter all N are returned.
C8_ListExactSubset ==
    listed.called =>
        LET items == listed.items
            f == listed.filter
        IN  /\ \A i \in 1..Len(items) :
                  /\ Matches(items[i], f)
                  /\ \E k \in 1..Len(fixture) : fixture[k] = items[i]
            /\ \A k \in 1..Len(fixture) :
                  Matches(fixture[k], f) => \E i \in 1..Len(items) : items[i] = fixture[k]
            /\ \A i, j \in 1..Len(items) : i < j => items[i].id < items[j].id
            /\ f = "all" => items = fixture
            /\ (\A k \in 1..Len(fixture) : ~Matches(fixture[k], f)) => items = <<>>

\* a filtered listing that kept the first and the third of three connections
C8_Witness ==
    /\ Len(fixture) = 3
    /\ listed.called
    /\ listed.filter = "AZURE_OPEN_AI"
    /\ Len(listed.items) = 2
    /\ listed.items[2].id = 3

\* C9: get_default_connection(type) fails with NotFound whenever no
\* connection of the type is registered, and otherwise returns a registered
\* connection of exactly that type.
C9_DefaultOfType ==
    default_conn.called =>
        IF \E k \in 1..Len(fixture) : fixture[k].type = default_conn.type
        THEN /\ default_conn.found
             /\ default_conn.conn.type = default_conn.type
             /\ \E k \in 1..Len(fixture) : fixture[k] = default_conn.conn
        ELSE /\ ~default_conn.found
             /\ default_conn.error = "NotFound"

\* NotFound on a fixture that holds connections, none of the requested type
C9_Witness ==
    /\ Len(fixture) = 2
    /\ default_conn.called
    /\ ~default_conn.found
    /\ default_conn.type = "AZURE_AI_SERVICES"

\* -------------------------------------------------------------------------
\* Properties of the setup cells
\* -------------------------------------------------------------------------
ReadsConnectionString == notebook \in {"authentication", "environment_setup", "embeddings"}

\* the connection string the notebook works with has fewer than the
\* required fields (or is missing)
MalformedConn == ~ConnSet \/ Len(conn_env) < RequiredFields

\* C5: a malformed connection string makes construction fail with a
\* configuration error there and then; it never leads to a later failure of
\* a step that uses an undefined client or indexes a missing field.
C5_NoDownstreamFailure ==
    (ReadsConnectionString /\ MalformedConn) => cell_error \notin {"NameError", "IndexError"}

\* C10: when a variable the notebook requires is absent, the run ends with a
\* configuration error at the cell that reads it, and no later step (login
\* command, client construction, model call) is given a missing value.
C10_NoMissingValueUsed ==
    /\ \A k \in 1..Len(calls) : ~calls[k].missing
    /\ (nb_pc >= 1 /\ ~(EnvOf(notebook) \subseteq env_set)) => cell_error = "ConfigurationError"

\* -------------------------------------------------------------------------
\* Properties of the remote calls
\* -------------------------------------------------------------------------
\* the completion function, or the embeddings code, whose run is over
Invoked == IF func # "none" THEN func ELSE IF scope_pc = "idle" THEN cell ELSE "none"

\* each invocation makes its remote call once: no second call after a failure
CalledOnce ==
    /\ remote_calls <= 1
    /\ func # "none" => remote_calls = 1
    /\ remote_error # "none" => remote_calls = 1

Shown(msg) == msg \in Range(printed)

\* C12: every failure path produces a human-readable message and none is
\* swallowed silently: a failed credential initialization, a failed client
\* construction and a missing connection string each leave their printed
\* line, a failed token acquisition prints "Authentication failed" after the
\* per-strategy failures were logged, a failed embedding call is printed by
\* the cell's except clause or leaves embed_with_template uncaught, and an
\* uncaught exception (a failed completion call among them) ends the run of
\* the notebook with its traceback.
C12_FailureShown ==
    /\ (notebook = "environment_setup" /\ nb_pc >= 1 /\ "credential" \notin defined)
          => Shown("Error initializing credentials")
    /\ (notebook = "environment_setup" /\ nb_pc >= 2 /\ "client" \notin defined)
          => Shown("Error initializing client")
    /\ (notebook = "embeddings" /\ nb_pc >= 1 /\ "project_client" \notin defined)
          => Shown("Error creating AIProjectClient")
    /\ (notebook = "deepseek" /\ nb_pc >= 1 /\ "client" \notin defined)
          => Shown("Initialization failed")
    /\ (notebook = "authentication" /\ nb_pc >= 1 /\ ~Truthy(ConnSet, conn_env))
          => Shown("Could not get subscription ID")
    /\ (res = "failed" /\ auth_msg # "none")
          => auth_msg = "Authentication failed" /\ failures # <<>> /\ reported # <<>>
    /\ (scope_pc = "idle" /\ remote_error # "none")
          => \/ outcome = "printed_error"
             \/ outcome = "raised" /\ cell_error = remote_error
    /\ cell_error # "none" => ~ENABLED WorkshopNext

\* the environment setup notebook after its client cell, with neither the
\* credential nor the client created, and both failures printed
C12_Witness ==
    /\ notebook = "environment_setup"
    /\ nb_pc = 2
    /\ defined = {}
    /\ printed = <<"Error initializing credentials", "Error initializing client">>

\* -------------------------------------------------------------------------
\* Frame of credential resolution
\* -------------------------------------------------------------------------
\* the state outside the resolver: the environment variables, and the CLI
\* login session with the subscription it has selected
GlobalState == <<env_set, conn_env, az_tenant, az_subscription>>

\* a step of the token test: a strategy is attempted, or the outcome printed
ResolutionStep == attempts' # attempts \/ auth_msg' # auth_msg

LoginCellRan == notebook = "authentication" /\ nb_pc = 1

SetStepRanWith(sub) ==
    /\ cell_error = "none"
    /\ az_subscription = sub
    /\ Call("az account set", FALSE) \in Range(calls)
    /\ printed = <<"Successfully set subscription">>

SetStepSkipped ==
    /\ cell_error = "none"
    /\ az_subscription = "unset"
    /\ Call("az account set", FALSE) \notin Range(calls)
    /\ printed = <<"Could not get subscription ID">>

\* C14 as stated: for every non-empty connection string with at least two
\* fields the subscription-set step runs with the field at index 1, and for
\* an absent or empty connection string the step is skipped with a warning.
C14_AsStated ==
    LoginCellRan =>
        /\ (Truthy(ConnSet, conn_env) /\ Len(conn_env) >= 2) => SetStepRanWith(conn_env[2])
        /\ ~Truthy(ConnSet, conn_env) => SetStepSkipped

\* C14: for every connection string with at least two fields whose field at
\* index 1 is not empty the subscription-set step runs with exactly that
\* field; when the connection string is absent or empty, and also when its
\* field at index 1 is empty, the step is skipped and the warning is
\* printed instead of an error.
C14_SubscriptionField ==
    LoginCellRan =>
        /\ (Truthy(ConnSet, conn_env) /\ Len(conn_env) >= 2 /\ conn_env[2] # "")
              => SetStepRanWith(conn_env[2])
        /\ (Truthy(ConnSet, conn_env) /\ Len(conn_env) >= 2 /\ conn_env[2] = "")
              => SetStepSkipped
        /\ ~Truthy(ConnSet, conn_env) => SetStepSkipped

\* a connection string whose first field is empty and whose second is not:
\* the step ran with the second
C14_Witness ==
    /\ LoginCellRan
    /\ conn_env = <<"", "id", "">>
    /\ SetStepRanWith("id")

\* -------------------------------------------------------------------------
\* Properties of the theme provider
\* -------------------------------------------------------------------------
\* C15: useTheme raises "useTheme must be used within a ThemeProvider"
\* whenever it is called with no ThemeProvider above the caller, and returns
\* the provider's { theme, setTheme } when there is one.
C15_RaisesOutsideProvider ==
    hook.called =>
        IF hook.inside
        THEN ~hook.thrown /\ hook.value.setTheme = "setTheme"
        ELSE hook.thrown /\ hook.message = "useTheme must be used within a ThemeProvider"

EffectRan == mounted /\ effect_theme = theme

\* C16: once the effect has run for the current theme, the root carries
\* exactly one of the classes light and dark: the selected theme when it is
\* light or dark, the current system preference when it is "system".
C16_OneClass ==
    EffectRan =>
        root_classes = {IF theme = "system" THEN SystemTheme(prefers_dark) ELSE theme}

\* the theme is "system", set after "light", and the preference changed to
\* dark after the effect had run
C16_Witness ==
    /\ EffectRan
    /\ theme = "system"
    /\ stored = "system"
    /\ prefers_dark
    /\ colorScheme = "light"
    /\ root_classes = {"dark"}

\* C17: the color scheme of the body always equals the light/dark class on
\* the root, in every state reached by setTheme calls and preference
\* changes, changes arriving while the theme is "system" included.
C17_ColorSchemeMatches ==
    (mounted /\ root_classes # {}) => root_classes = {colorScheme}

\* the preference changes while the theme is light or dark
PreferenceStepOutsideSystem ==
    /\ prefers_dark' # prefers_dark
    /\ mounted
    /\ theme \in {"light", "dark"}

\* C18 as stated: a listener is registered exactly when the current theme
\* is "system", there is never more than one, none is left after an unmount,
\* and a preference change while the theme is light or dark never changes
\* the root class.
C18_AsStated ==
    /\ [](/\ listeners <= 1
          /\ mounted => (listeners = 1 <=> theme = "system")
          /\ ~mounted => listeners = 0)
    /\ [][PreferenceStepOutsideSystem => root_classes' = root_classes]_vars

\* C18: once the effect has run for the current theme, a listener is
\* registered exactly when that theme is "system"; there is never more than
\* one listener, none is left after the provider unmounts, and a preference
\* change while the theme is light or dark and its effect has run never
\* changes the root class.
C18_ListenerWhenSystem ==
    /\ [](/\ listeners <= 1
          /\ EffectRan => (listeners = 1 <=> theme = "system")
          /\ ~mounted => listeners = 0)
    /\ [][(PreferenceStepOutsideSystem /\ EffectRan) => root_classes' = root_classes]_vars

\* the effect has run for "system" under a light preference: its one
\* listener is registered
C18_Witness ==
    /\ EffectRan
    /\ theme = "system"
    /\ listeners = 1
    /\ stored = "system"
    /\ root_classes = {"light"}
    /\ colorScheme = "light"

JustMounted == mounted /\ effect_theme = "none"

\* C19: once the effect has run the stored 'theme' item equals the current
\* theme; a provider that has just been mounted starts with the stored item
\* when there is one and with defaultTheme only when there is none, so it
\* starts with the theme the effect last ran for.
C19_SurvivesReload ==
    /\ EffectRan => stored = theme
    /\ JustMounted => theme = (IF stored # "absent" THEN stored ELSE defaultTheme)
    /\ (JustMounted /\ last_applied # "none") => theme = last_applied

\* a provider mounted with defaultTheme "light" after a page load in which
\* "dark" was selected
C19_Witness ==
    /\ JustMounted
    /\ defaultTheme = "light"
    /\ last_applied = "dark"
    /\ theme = "dark"
    /\ root_classes = {}

\* -------------------------------------------------------------------------
\* The first reasoning block
\* -------------------------------------------------------------------------
OpensOf(c) == {i \in 1..Len(c) : c[i] = Open}
ClosesAfter(c, i) == {k \in (i + 1)..Len(c) : c[k] = Close}

\* C20: when plan_trip_with_reasoning splits a response, thinking is the
\* trimmed text between the first <think> and the first </think> after it,
\* answer is the trimmed text of everything after that closing marker, later
\* marker blocks included, and the text before the first <think> is in
\* neither; with show_thinking false the response is returned unsplit.
C20_FirstBlock ==
    (func = "plan_trip_with_reasoning" /\ result.kind # "raised") =>
        /\ ~show_thinking => result = StrResult(content)
        /\ result.kind = "dict" =>
              /\ OpensOf(content) # {}
              /\ ClosesAfter(content, Min(OpensOf(content))) # {}
              /\ LET i == Min(OpensOf(content))
                     j == Min(ClosesAfter(content, i))
                 IN  /\ IsTrimOf(result.thinking, SubSeq(content, i + 1, j - 1))
                     /\ IsTrimOf(result.answer, SubSeq(content, j + 1, Len(content)))

\* a response with text before the first block and a second block after
\* it: the second block is in the answer, the leading text in neither part
C20_Witness ==
    /\ func = "plan_trip_with_reasoning"
    /\ show_thinking
    /\ content = <<"a", Open, " ", Close, Open>>
    /\ result = DictResult(<<>>, <<Open>>)

\* a response holding a marker block, returned whole because show_thinking
\* is false
C20_UnsplitWitness ==
    /\ func = "plan_trip_with_reasoning"
    /\ ~show_thinking
    /\ content = <<Open, "a", Close, "a">>
    /\ result = StrResult(content)
====
